---- MODULE Spec2Model ----
(***************************************************************************)
(* Model of mcp-server-python/mcp-server.py: a FastMCP server exposing     *)
(* three tools (add_numbers, multiply_numbers, process_text) plus a        *)
(* FastAPI health endpoint.                                                *)
(*                                                                         *)
(* What the file contains, and therefore what is modelled:                 *)
(*   - the module-level registration of the three tools on `mcp`, in       *)
(*     source order, followed by main() which starts serving;              *)
(*   - the three tool bodies, as pure functions computing their result     *)
(*     string character by character;                                      *)
(*   - the health handler.                                                 *)
(* The JSON-RPC transport (decoding, envelope validation, error codes,     *)
(* HTTP status) is the fastmcp library's and is not part of this file.     *)
(*                                                                         *)
(* A Python str is a sequence of code points, each a one-character string. *)
(* A float is an exact count of quarters (0.25), which covers every value  *)
(* the bounded operands produce and is exact in IEEE-754 double precision. *)
(***************************************************************************)
EXTENDS Integers, Sequences, FiniteSets, TLC

VARIABLES
    registry,   \* the tools registered on mcp, in registration order
    phase,      \* "loading" while the module body runs, "serving" once main() runs
    lastCall,   \* the request being handled, NoCall when none is
    returned,   \* the value its handler returned
    listings,   \* history: every distinct result tools/list has returned so far
    toolCalls,  \* history: tool invocations handled so far, saturating at MaxCalls
    frames      \* the requests in flight at the same time, each with its own locals

vars == <<registry, phase, lastCall, returned, listings, toolCalls, frames>>

(* ------------------------------- bounds -------------------------------- *)

MaxOperand == 10

MaxTextLen == 3

MaxCalls == 2

MaxInFlight == 2

(* ------------------------------ strings -------------------------------- *)

Digits == <<"0", "1", "2", "3", "4", "5", "6", "7", "8", "9">>

UpperLetters == <<"A", "B", "C", "D", "E", "F", "G", "H", "I", "J", "K", "L", "M",
                  "N", "O", "P", "Q", "R", "S", "T", "U", "V", "W", "X", "Y", "Z">>

LowerLetters == <<"a", "b", "c", "d", "e", "f", "g", "h", "i", "j", "k", "l", "m",
                  "n", "o", "p", "q", "r", "s", "t", "u", "v", "w", "x", "y", "z">>

RECURSIVE IntStr(_)
(* str() of a non-negative int: its decimal digits. *)
IntStr(n) ==
    IF n < 10 THEN <<Digits[n + 1]>>
    ELSE IntStr(n \div 10) \o <<Digits[(n % 10) + 1]>>

(* Index of c in the letter table t, 0 when absent. *)
LetterIndex(t, c) ==
    IF \E i \in 1..Len(t) : t[i] = c
    THEN CHOOSE i \in 1..Len(t) : t[i] = c
    ELSE 0

(* str.lower() on one code point: A-Z map to a-z; everything else used    *)
(* here (a-z, digits, punctuation, U+00DF) is unchanged.                   *)
LowerChar(c) ==
    IF LetterIndex(UpperLetters, c) > 0
    THEN <<LowerLetters[LetterIndex(UpperLetters, c)]>>
    ELSE <<c>>

(* str.upper() on one code point: a-z map to A-Z; U+00DF (sharp s) has no  *)
(* single uppercase code point and expands to "SS"; the rest is unchanged. *)
UpperChar(c) ==
    IF LetterIndex(LowerLetters, c) > 0
    THEN <<UpperLetters[LetterIndex(LowerLetters, c)]>>
    ELSE IF c = "ß" THEN <<"S", "S">>
    ELSE <<c>>

RECURSIVE str_lower(_)
str_lower(s) ==
    IF s = <<>> THEN <<>> ELSE LowerChar(Head(s)) \o str_lower(Tail(s))

RECURSIVE str_upper(_)
str_upper(s) ==
    IF s = <<>> THEN <<>> ELSE UpperChar(Head(s)) \o str_upper(Tail(s))

RECURSIVE str_reverse_drops_first(_)
(* text[:0:-1]: a reversal that stops before the first code point. *)
str_reverse_drops_first(s) ==
    IF Len(s) <= 1 THEN <<>> ELSE str_reverse_drops_first(Tail(s)) \o <<s[2]>>

RECURSIVE str_reverse(_)
(* text[::-1]: the code points in reverse order. *)
str_reverse(s) ==
    IF s = <<>> THEN <<>> ELSE str_reverse(Tail(s)) \o <<Head(s)>>

(* ------------------------------ numbers -------------------------------- *)

(* A JSON number as written in a request: an integer part and an optional *)
(* fraction part; frac = "" is an integer literal such as 5, frac = "0"    *)
(* is 5.0, frac = "5" is 5.5, frac = "50" is 5.50.                         *)
NumberLiterals == [units : 0..MaxOperand, frac : {"", "0", "5", "50"}]

(* The literal exactly as the request spells it. *)
LiteralText(x) ==
    IntStr(x.units) \o
        CASE x.frac = ""   -> <<>>
          [] x.frac = "0"  -> <<".", "0">>
          [] x.frac = "5"  -> <<".", "5">>
          [] x.frac = "50" -> <<".", "5", "0">>

(* The value bound to a parameter annotated `float`: the number as a      *)
(* double, in quarters. An integer literal becomes the float of its value. *)
ToFloat(x) == 4 * x.units + (IF x.frac \in {"5", "50"} THEN 2 ELSE 0)

(* Formatting a float inside an f-string: repr(float), which always shows *)
(* a fraction part, ".0" for an integral value.                            *)
FloatRepr(q) ==
    IntStr(q \div 4) \o
        CASE q % 4 = 0 -> <<".", "0">>
          [] q % 4 = 1 -> <<".", "2", "5">>
          [] q % 4 = 2 -> <<".", "5">>
          [] q % 4 = 3 -> <<".", "7", "5">>

(* ------------------------------- tools --------------------------------- *)

SumPrefix == <<"T", "h", "e", " ", "s", "u", "m", " ", "o", "f", " ">>

ProductPrefix == <<"T", "h", "e", " ", "p", "r", "o", "d", "u", "c", "t", " ", "o", "f", " ">>

AndInfix == <<" ", "a", "n", "d", " ">>

IsInfix == <<" ", "i", "s", " ">>

UppercaseLabel == <<"U", "p", "p", "e", "r", "c", "a", "s", "e", ":", " ">>

LowercaseLabel == <<"L", "o", "w", "e", "r", "c", "a", "s", "e", ":", " ">>

ReversedLabel == <<"R", "e", "v", "e", "r", "s", "e", "d", ":", " ">>

UnknownPrefix == <<"U", "n", "k", "n", "o", "w", "n", " ", "o", "p", "e", "r", "a", "t", "i", "o", "n", ":", " ">>

UnknownSuffix == <<".", " ", "A", "v", "a", "i", "l", "a", "b", "l", "e", ":", " ",
                   "u", "p", "p", "e", "r", ",", " ", "l", "o", "w", "e", "r", ",", " ",
                   "r", "e", "v", "e", "r", "s", "e">>

OpUpper == <<"u", "p", "p", "e", "r">>

OpLower == <<"l", "o", "w", "e", "r">>

OpReverse == <<"r", "e", "v", "e", "r", "s", "e">>

(* add_numbers(a: float, b: float): a and b are floats (quarters). *)
add_numbers(a, b) ==
    LET result == a + b
    IN  SumPrefix \o FloatRepr(a) \o AndInfix \o FloatRepr(b) \o IsInfix \o FloatRepr(result)

(* multiply_numbers(a: float, b: float): the product of two counts of     *)
(* quarters is a count of sixteenths; the operands are multiples of one    *)
(* half, so the division by 4 is exact.                                    *)
multiply_numbers(a, b) ==
    LET result == (a * b) \div 4
    IN  ProductPrefix \o FloatRepr(a) \o AndInfix \o FloatRepr(b) \o IsInfix \o FloatRepr(result)

(* A lower branch that calls upper(), as the branch above it does. *)
process_text_lower_calls_upper(text, operation) ==
    LET op == str_lower(operation)
    IN  IF op = OpUpper THEN UppercaseLabel \o str_upper(text)
        ELSE IF op = OpLower THEN LowercaseLabel \o str_upper(text)
        ELSE IF op = OpReverse THEN ReversedLabel \o str_reverse(text)
        ELSE UnknownPrefix \o op \o UnknownSuffix

(* A fallback branch that reports the text instead of the operation. *)
process_text_reports_text(text, operation) ==
    LET op == str_lower(operation)
    IN  IF op = OpUpper THEN UppercaseLabel \o str_upper(text)
        ELSE IF op = OpLower THEN LowercaseLabel \o str_lower(text)
        ELSE IF op = OpReverse THEN ReversedLabel \o str_reverse(text)
        ELSE UnknownPrefix \o text \o UnknownSuffix

process_text(text, operation) ==
    LET op == str_lower(operation)
    IN  IF op = OpUpper THEN UppercaseLabel \o str_upper(text)
        ELSE IF op = OpLower THEN LowercaseLabel \o str_lower(text)
        ELSE IF op = OpReverse THEN ReversedLabel \o str_reverse(text)
        ELSE UnknownPrefix \o op \o UnknownSuffix

(* ------------------------------ inputs --------------------------------- *)

TextAlphabet == {"a", "B", "ß"}

Texts == UNION {[1..n -> TextAlphabet] : n \in 0..MaxTextLen}

Operations == {OpUpper, OpLower, OpReverse,
               <<"U", "P", "P", "E", "R">>,
               <<"R", "e", "v", "e", "r", "s", "e">>,
               <<"t", "i", "t", "l", "e">>,
               <<"T", "i", "t", "l", "e">>}

NoNumber == [units |-> 0, frac |-> ""]

(* fed, origin and originOp describe a process_text call whose text is    *)
(* taken from the value an earlier process_text call returned: fed says    *)
(* which part was passed on ("output": the whole returned string,          *)
(* "transformed": the part after the label), origin and originOp are the   *)
(* text and operation of that earlier call.                                *)
NoCall == [kind |-> "none", a |-> NoNumber, b |-> NoNumber,
           text |-> <<>>, operation |-> <<>>,
           fed |-> "none", origin |-> <<>>, originOp |-> <<>>]

(* The label process_text puts before the transformed text. *)
LabelOf(operation) ==
    LET op == str_lower(operation)
    IN  IF op = OpUpper THEN UppercaseLabel
        ELSE IF op = OpLower THEN LowercaseLabel
        ELSE ReversedLabel

(* The value of the local `result` inside a returned "<Label>: <result>". *)
TransformedText(output, operation) ==
    SubSeq(output, Len(LabelOf(operation)) + 1, Len(output))

(* ------------------------------ registry ------------------------------- *)

(* A registration that puts the new tool before the earlier ones. *)
tool_prepend(reg, name) == <<name>> \o reg

(* @mcp.tool(): registers the decorated function under its own name,      *)
(* after the tools registered before it.                                   *)
tool(reg, name) == Append(reg, name)

Slots == 1..MaxInFlight

(* A handler activation: the request it was called with, its locals (op is *)
(* the rebound `operation`, result the local `result`) and its response.   *)
FreeFrame == [pc |-> "free", kind |-> "none", a |-> NoNumber, b |-> NoNumber,
              text |-> <<>>, operation |-> <<>>,
              op |-> <<>>, result |-> <<>>, number |-> 0, response |-> <<>>]

Init ==
    /\ frames = [i \in Slots |-> FreeFrame]
    /\ registry = <<>>
    /\ phase = "loading"
    /\ lastCall = NoCall
    /\ returned = <<>>
    /\ listings = {}
    /\ toolCalls = 0

(* Module load: the three decorated definitions run in source order. *)
RegisterAddNumbers ==
    /\ phase = "loading"
    /\ Len(registry) = 0
    /\ registry' = tool(registry, "add_numbers")
    /\ UNCHANGED <<phase, lastCall, returned, listings, toolCalls, frames>>

RegisterMultiplyNumbers ==
    /\ phase = "loading"
    /\ Len(registry) = 1
    /\ registry' = tool(registry, "multiply_numbers")
    /\ UNCHANGED <<phase, lastCall, returned, listings, toolCalls, frames>>

RegisterProcessText ==
    /\ phase = "loading"
    /\ Len(registry) = 2
    /\ registry' = tool(registry, "process_text")
    /\ UNCHANGED <<phase, lastCall, returned, listings, toolCalls, frames>>

(* main(): starts the health listener and then the MCP server. *)
main ==
    /\ phase = "loading"
    /\ Len(registry) = 3
    /\ phase' = "serving"
    /\ UNCHANGED <<registry, lastCall, returned, listings, toolCalls, frames>>

(* An invocation of add_numbers with the request's arguments a and b. *)
CallAddNumbers ==
    /\ phase = "serving"
    /\ lastCall.kind = "none"
    /\ \E a \in NumberLiterals, b \in NumberLiterals :
        /\ lastCall' = [NoCall EXCEPT !.kind = "add_numbers", !.a = a, !.b = b]
        /\ returned' = add_numbers(ToFloat(a), ToFloat(b))
    /\ toolCalls' = IF toolCalls < MaxCalls THEN toolCalls + 1 ELSE toolCalls
    /\ UNCHANGED <<registry, phase, listings, frames>>

CallMultiplyNumbers ==
    /\ phase = "serving"
    /\ lastCall.kind = "none"
    /\ \E a \in NumberLiterals, b \in NumberLiterals :
        /\ lastCall' = [NoCall EXCEPT !.kind = "multiply_numbers", !.a = a, !.b = b]
        /\ returned' = multiply_numbers(ToFloat(a), ToFloat(b))
    /\ toolCalls' = IF toolCalls < MaxCalls THEN toolCalls + 1 ELSE toolCalls
    /\ UNCHANGED <<registry, phase, listings, frames>>

CallProcessText ==
    /\ phase = "serving"
    /\ lastCall.kind = "none"
    /\ \E text \in Texts, operation \in Operations :
        /\ lastCall' = [NoCall EXCEPT !.kind = "process_text", !.text = text,
                                      !.operation = operation]
        /\ returned' = process_text(text, operation)
    /\ toolCalls' = IF toolCalls < MaxCalls THEN toolCalls + 1 ELSE toolCalls
    /\ UNCHANGED <<registry, phase, listings, frames>>

(* A second invocation of process_text whose text is what the first one   *)
(* returned, either whole or without its label.                            *)
ResubmitProcessText ==
    /\ phase = "serving"
    /\ lastCall.kind = "process_text"
    /\ lastCall.fed = "none"
    /\ str_lower(lastCall.operation) \in {OpUpper, OpLower, OpReverse}
    /\ \E fed \in {"output", "transformed"}, operation \in Operations :
        LET text == IF fed = "output" THEN returned
                    ELSE TransformedText(returned, lastCall.operation)
        IN  /\ lastCall' = [NoCall EXCEPT !.kind = "process_text", !.text = text,
                                          !.operation = operation, !.fed = fed,
                                          !.origin = lastCall.text,
                                          !.originOp = lastCall.operation]
            /\ returned' = process_text(text, operation)
    /\ toolCalls' = IF toolCalls < MaxCalls THEN toolCalls + 1 ELSE toolCalls
    /\ UNCHANGED <<registry, phase, listings, frames>>

(* tools/list: every tool of the registry, in registration order (served   *)
(* by fastmcp from the tools registered on mcp).                           *)
ListTools ==
    /\ phase = "serving"
    /\ lastCall.kind = "none"
    /\ lastCall' = [NoCall EXCEPT !.kind = "tools/list"]
    /\ returned' = registry
    /\ listings' = listings \cup {registry}
    /\ UNCHANGED <<registry, phase, toolCalls, frames>>

(* GET /health: HealthCheck(status="OK"). *)
get_health ==
    /\ phase = "serving"
    /\ lastCall.kind = "none"
    /\ lastCall' = [NoCall EXCEPT !.kind = "health"]
    /\ returned' = <<"O", "K">>
    /\ UNCHANGED <<registry, phase, listings, toolCalls, frames>>

(* The handler returns: its value has been handed back and nothing of the  *)
(* request remains in the process.                                         *)
Complete ==
    /\ phase = "serving"
    /\ lastCall.kind # "none"
    /\ lastCall' = NoCall
    /\ returned' = <<>>
    /\ UNCHANGED <<registry, phase, listings, toolCalls, frames>>

Next ==
    \/ RegisterAddNumbers
    \/ RegisterMultiplyNumbers
    \/ RegisterProcessText
    \/ main
    \/ CallAddNumbers
    \/ CallMultiplyNumbers
    \/ CallProcessText
    \/ ResubmitProcessText
    \/ ListTools
    \/ get_health
    \/ Complete

Spec == Init /\ [][Next]_vars

(* ---------------------- requests handled concurrently ------------------ *)

ConcurrentNumbers == {[units |-> 5, frac |-> ""], [units |-> 10, frac |-> "5"]}

ConcurrentTexts == {<<"a", "B">>, <<"ß">>}

ConcurrentOperations == {OpUpper, <<"R", "e", "v", "e", "r", "s", "e">>,
                         <<"t", "i", "t", "l", "e">>}

(* The server after startup, with no request in flight. *)
InitConcurrent ==
    /\ frames = [i \in Slots |-> FreeFrame]
    /\ registry = <<"add_numbers", "multiply_numbers", "process_text">>
    /\ phase = "serving"
    /\ lastCall = NoCall
    /\ returned = <<>>
    /\ listings = {}
    /\ toolCalls = 0

Sequential == <<registry, phase, lastCall, returned, listings, toolCalls>>

(* A result kept in one place for all handlers: the return statement sees *)
(* the `result` of the latest activation that has computed one.            *)
result_shared(fs, i) ==
    LET computed == {j \in DOMAIN fs : fs[j].pc = "computed" /\ fs[j].kind = "process_text"}
    IN  fs[CHOOSE j \in computed : \A k \in computed : k <= j].result

(* The local `result` the return statement of activation i formats. *)
result(fs, i) == fs[i].result

(* A request arrives and its handler is entered with the arguments bound. *)
ReceiveToolCall(i) ==
    /\ frames[i].pc = "free"
    /\ \/ \E kind \in {"add_numbers", "multiply_numbers"},
             a \in ConcurrentNumbers, b \in ConcurrentNumbers :
            frames' = [frames EXCEPT ![i] =
                [FreeFrame EXCEPT !.pc = "called", !.kind = kind, !.a = a, !.b = b]]
       \/ \E text \in ConcurrentTexts, operation \in ConcurrentOperations :
            frames' = [frames EXCEPT ![i] =
                [FreeFrame EXCEPT !.pc = "called", !.kind = "process_text",
                                  !.text = text, !.operation = operation]]
    /\ UNCHANGED Sequential

(* A health probe arrives on the FastAPI listener. *)
ReceiveHealth(i) ==
    /\ frames[i].pc = "free"
    /\ frames' = [frames EXCEPT ![i] = [FreeFrame EXCEPT !.pc = "called", !.kind = "health"]]
    /\ UNCHANGED Sequential

(* A tools/list request arrives. *)
ReceiveListTools(i) ==
    /\ frames[i].pc = "free"
    /\ frames' = [frames EXCEPT ![i] = [FreeFrame EXCEPT !.pc = "called", !.kind = "tools/list"]]
    /\ UNCHANGED Sequential

(* result = a + b *)
StepAdd(i) ==
    /\ frames[i].pc = "called"
    /\ frames[i].kind = "add_numbers"
    /\ frames' = [frames EXCEPT ![i].pc = "computed",
                                ![i].number = ToFloat(frames[i].a) + ToFloat(frames[i].b)]
    /\ UNCHANGED Sequential

(* result = a * b *)
StepMultiply(i) ==
    /\ frames[i].pc = "called"
    /\ frames[i].kind = "multiply_numbers"
    /\ frames' = [frames EXCEPT ![i].pc = "computed",
                                ![i].number = (ToFloat(frames[i].a) * ToFloat(frames[i].b)) \div 4]
    /\ UNCHANGED Sequential

(* operation = operation.lower() *)
StepLower(i) ==
    /\ frames[i].pc = "called"
    /\ frames[i].kind = "process_text"
    /\ frames' = [frames EXCEPT ![i].pc = "lowered", ![i].op = str_lower(frames[i].operation)]
    /\ UNCHANGED Sequential

(* result = text.upper() | text.lower() | text[::-1] *)
StepTransform(i) ==
    /\ frames[i].pc = "lowered"
    /\ frames[i].op \in {OpUpper, OpLower, OpReverse}
    /\ frames' = [frames EXCEPT ![i].pc = "computed",
                                ![i].result = IF frames[i].op = OpUpper THEN str_upper(frames[i].text)
                                              ELSE IF frames[i].op = OpLower THEN str_lower(frames[i].text)
                                              ELSE str_reverse(frames[i].text)]
    /\ UNCHANGED Sequential

(* return f"The sum of {a} and {b} is {result}" and its multiply twin *)
ReturnArithmetic(i) ==
    /\ frames[i].pc = "computed"
    /\ frames[i].kind \in {"add_numbers", "multiply_numbers"}
    /\ frames' = [frames EXCEPT ![i].pc = "returned",
                                ![i].response =
                                    (IF frames[i].kind = "add_numbers" THEN SumPrefix ELSE ProductPrefix)
                                    \o FloatRepr(ToFloat(frames[i].a)) \o AndInfix
                                    \o FloatRepr(ToFloat(frames[i].b)) \o IsInfix
                                    \o FloatRepr(frames[i].number)]
    /\ UNCHANGED Sequential

(* return f"Uppercase: {result}" and the two branches like it *)
ReturnText(i) ==
    /\ frames[i].pc = "computed"
    /\ frames[i].kind = "process_text"
    /\ frames' = [frames EXCEPT ![i].pc = "returned",
                                ![i].response = LabelOf(frames[i].op) \o result(frames, i)]
    /\ UNCHANGED Sequential

(* return f"Unknown operation: {operation}. Available: upper, lower, reverse" *)
ReturnUnknown(i) ==
    /\ frames[i].pc = "lowered"
    /\ frames[i].op \notin {OpUpper, OpLower, OpReverse}
    /\ frames' = [frames EXCEPT ![i].pc = "returned",
                                ![i].response = UnknownPrefix \o frames[i].op \o UnknownSuffix]
    /\ UNCHANGED Sequential

(* return HealthCheck(status="OK") *)
ReturnHealth(i) ==
    /\ frames[i].pc = "called"
    /\ frames[i].kind = "health"
    /\ frames' = [frames EXCEPT ![i].pc = "returned", ![i].response = <<"O", "K">>]
    /\ UNCHANGED Sequential

(* tools/list answered from the registry, which it only reads. *)
ReturnListTools(i) ==
    /\ frames[i].pc = "called"
    /\ frames[i].kind = "tools/list"
    /\ frames' = [frames EXCEPT ![i].pc = "returned", ![i].response = registry]
    /\ UNCHANGED Sequential

(* The response has been sent and the activation is gone. *)
Release(i) ==
    /\ frames[i].pc = "returned"
    /\ frames' = [frames EXCEPT ![i] = FreeFrame]
    /\ UNCHANGED Sequential

NextConcurrent ==
    \/ \E i \in Slots : ReceiveToolCall(i)
    \/ \E i \in Slots : ReceiveHealth(i)
    \/ \E i \in Slots : ReceiveListTools(i)
    \/ \E i \in Slots : StepAdd(i)
    \/ \E i \in Slots : StepMultiply(i)
    \/ \E i \in Slots : StepLower(i)
    \/ \E i \in Slots : StepTransform(i)
    \/ \E i \in Slots : ReturnArithmetic(i)
    \/ \E i \in Slots : ReturnText(i)
    \/ \E i \in Slots : ReturnUnknown(i)
    \/ \E i \in Slots : ReturnHealth(i)
    \/ \E i \in Slots : ReturnListTools(i)
    \/ \E i \in Slots : Release(i)

SpecConcurrent == InitConcurrent /\ [][NextConcurrent]_vars

(* ------------------------------- claims ------------------------------- *)

RegistrationOrder == <<"add_numbers", "multiply_numbers", "process_text">>

(* C9: once the server is serving, the registry holds exactly add_numbers, *)
(* multiply_numbers, process_text in that order, whatever requests have    *)
(* been handled; every tools/list returns that sequence, so all the        *)
(* results tools/list has returned in a run are one and the same.          *)
C9_RegistryFixed ==
    phase = "serving" =>
        /\ registry = RegistrationOrder
        /\ (lastCall.kind = "tools/list" => returned = RegistrationOrder)
        /\ listings \subseteq {RegistrationOrder}

(* A tools/list answered after tool calls were handled, and after an      *)
(* earlier tools/list.                                                     *)
C9_Witness ==
    /\ phase = "serving"
    /\ lastCall.kind = "tools/list"
    /\ toolCalls = MaxCalls
    /\ listings = {RegistrationOrder}
    /\ returned = RegistrationOrder

DocumentedSum == <<"T", "h", "e", " ", "s", "u", "m", " ", "o", "f", " ", "5", " ",
                   "a", "n", "d", " ", "1", "0", " ", "i", "s", " ", "1", "5">>

C10_OperandsPart(a, b) ==
    SumPrefix \o LiteralText(a) \o AndInfix \o LiteralText(b) \o IsInfix

(* C10: the text add_numbers returns starts with "The sum of {a} and {b}   *)
(* is " where both operands are spelled exactly as in the request, and for *)
(* the operands 5 and 10 it is exactly "The sum of 5 and 10 is 15".        *)
C10_SumTextVerbatim ==
    lastCall.kind = "add_numbers" =>
        /\ Len(returned) > Len(C10_OperandsPart(lastCall.a, lastCall.b))
        /\ SubSeq(returned, 1, Len(C10_OperandsPart(lastCall.a, lastCall.b)))
               = C10_OperandsPart(lastCall.a, lastCall.b)
        /\ (/\ lastCall.a = [units |-> 5, frac |-> ""]
            /\ lastCall.b = [units |-> 10, frac |-> ""]
            => returned = DocumentedSum)

ValidOperations == {OpUpper, OpLower, OpReverse}

(* C11: when process_text is called with an operation whose lowered form  *)
(* is none of upper, lower, reverse, the handler returns normally, and     *)
(* what it returns is "Unknown operation: " followed by the lowered        *)
(* operation and ". Available: upper, lower, reverse".                     *)
C11_UnknownOperationText ==
    (lastCall.kind = "process_text" /\ str_lower(lastCall.operation) \notin ValidOperations) =>
        returned = UnknownPrefix \o str_lower(lastCall.operation) \o UnknownSuffix

(* process_text called on a non-empty text with the operation "Title". *)
C11_Witness ==
    /\ lastCall.kind = "process_text"
    /\ lastCall.operation = <<"T", "i", "t", "l", "e">>
    /\ lastCall.text = <<"a", "B">>
    /\ returned = UnknownPrefix \o <<"t", "i", "t", "l", "e">> \o UnknownSuffix

IsReverseCall == lastCall.kind = "process_text" /\ str_lower(lastCall.operation) = OpReverse

(* C12 as stated: the string process_text(s, "reverse") returns has as    *)
(* many code points as s, and passing that string to process_text with     *)
(* "reverse" again returns s.                                              *)
C12_ReverseTwiceReturnsInput ==
    /\ (IsReverseCall => Len(returned) = Len(lastCall.text))
    /\ (/\ IsReverseCall
        /\ lastCall.fed = "output"
        /\ str_lower(lastCall.originOp) = OpReverse
        => returned = lastCall.origin)

(* C12 amended: process_text(s, "reverse") returns "Reversed: " followed   *)
(* by a transformed text with as many code points as s, and passing that   *)
(* transformed text to process_text with "reverse" again returns           *)
(* "Reversed: " followed by s.                                             *)
C12_ReverseInvolution ==
    /\ (IsReverseCall =>
            /\ Len(returned) = Len(ReversedLabel) + Len(lastCall.text)
            /\ SubSeq(returned, 1, Len(ReversedLabel)) = ReversedLabel)
    /\ (/\ IsReverseCall
        /\ lastCall.fed = "transformed"
        /\ str_lower(lastCall.originOp) = OpReverse
        => returned = ReversedLabel \o lastCall.origin)

(* The reversal of "aBß" reversed again. *)
C12_Witness ==
    /\ IsReverseCall
    /\ lastCall.fed = "transformed"
    /\ str_lower(lastCall.originOp) = OpReverse
    /\ lastCall.origin = <<"a", "B", "ß">>
    /\ lastCall.text = <<"ß", "B", "a">>
    /\ returned = ReversedLabel \o <<"a", "B", "ß">>

IsLowerOfUpper ==
    /\ lastCall.kind = "process_text"
    /\ str_lower(lastCall.operation) = OpLower
    /\ lastCall.fed = "transformed"
    /\ str_lower(lastCall.originOp) = OpUpper

(* The fully-lowercased form of a text over TextAlphabet. *)
FullyLowercased(s) ==
    [i \in 1..Len(s) |-> IF s[i] = "B" THEN "b" ELSE s[i]]

(* C13 as stated: for every s, the uppercased text of s passed to          *)
(* process_text with "lower" yields the fully-lowercased form of s.        *)
C13_UpperThenLowerIsLower ==
    IsLowerOfUpper => TransformedText(returned, lastCall.operation) = FullyLowercased(lastCall.origin)

IsAsciiLetter(c) == LetterIndex(UpperLetters, c) > 0 \/ LetterIndex(LowerLetters, c) > 0

(* C13 amended: for every s of ASCII characters (which leaves out U+00DF,  *)
(* whose uppercase is "SS"), the uppercased text of s, taken without its   *)
(* "Uppercase: " label and passed to process_text with "lower", yields     *)
(* "Lowercase: " followed by the fully-lowercased form of s.               *)
C13_UpperThenLowerWithoutExpansion ==
    (IsLowerOfUpper /\ \A i \in 1..Len(lastCall.origin) : IsAsciiLetter(lastCall.origin[i])) =>
        returned = LowercaseLabel \o FullyLowercased(lastCall.origin)

(* "aB" uppercased to "AB" and then lowercased to "ab". *)
C13_Witness ==
    /\ IsLowerOfUpper
    /\ lastCall.origin = <<"a", "B">>
    /\ lastCall.text = <<"A", "B">>
    /\ returned = LowercaseLabel \o <<"a", "b">>

(* C14: a process_text call that reaches the tool always has an operation *)
(* whose lowered form is one of upper, lower, reverse, so the "Unknown     *)
(* operation" branch of the tool is never taken.                           *)
C14_FallbackUnreachable ==
    lastCall.kind = "process_text" =>
        /\ str_lower(lastCall.operation) \in ValidOperations
        /\ SubSeq(returned, 1, Len(UnknownPrefix)) # UnknownPrefix

(* The response a request gets when it is the only one being handled. *)
ResponseAlone(f) ==
    CASE f.kind = "add_numbers"      -> add_numbers(ToFloat(f.a), ToFloat(f.b))
      [] f.kind = "multiply_numbers" -> multiply_numbers(ToFloat(f.a), ToFloat(f.b))
      [] f.kind = "process_text"     -> process_text(f.text, f.operation)
      [] f.kind = "tools/list"       -> RegistrationOrder
      [] f.kind = "health"           -> <<"O", "K">>

(* C16: whatever other requests are in flight and however their steps     *)
(* interleave, the response of every request is the one it gets when       *)
(* handled alone, and the registry stays as it was after startup.          *)
C16_ResponsesIndependent ==
    /\ registry = RegistrationOrder
    /\ \A i \in Slots :
        frames[i].pc = "returned" => frames[i].response = ResponseAlone(frames[i])

(* A process_text response produced while another process_text call, on   *)
(* another text, has computed its result but not returned yet.             *)
C16_Witness ==
    \E i \in Slots, j \in Slots :
        /\ i < j
        /\ frames[i].pc = "returned"
        /\ frames[i].kind = "process_text"
        /\ frames[i].text = <<"a", "B">>
        /\ frames[i].response = UppercaseLabel \o <<"A", "B">>
        /\ frames[j].pc = "computed"
        /\ frames[j].kind = "process_text"
        /\ frames[j].text = <<"ß">>

TypeOK ==
    /\ phase \in {"loading", "serving"}
    /\ Len(registry) <= 3
    /\ lastCall.kind \in {"none", "add_numbers", "multiply_numbers",
                          "process_text", "tools/list", "health"}
    /\ toolCalls \in 0..MaxCalls

====
